---------------------------- MODULE Spec2Model ----------------------------
(***************************************************************************)
(* Model of bot.py, the Telegram OCR bot: the request handlers             *)
(* (process_document, process_photo, link_command), result delivery        *)
(* (send_ocr_results), the format buttons (button_callback) and the result *)
(* normalization (get_combined_markdown, replace_images_in_markdown).      *)
(*                                                                         *)
(* A Python str is a sequence of one-character strings.  A handler is a    *)
(* coroutine: one action of the model runs it from one await to the next,  *)
(* so the synchronous provider calls (upload, signed URL, OCR) and the     *)
(* normalization are never interleaved with another handler.  The         *)
(* dispatcher is the library's: handlers of different updates may          *)
(* interleave at their awaits, which includes handling the updates one at  *)
(* a time.                                                                 *)
(***************************************************************************)
EXTENDS Integers, Sequences, FiniteSets, TLC

(***************************************************************************)
(* Python str operations                                                   *)
(***************************************************************************)

\* s.startswith(p)
StartsWith(s, p) ==
    /\ Len(p) <= Len(s)
    /\ SubSeq(s, 1, Len(p)) = p

\* s[i:] (0-based i)
Drop(s, i) == SubSeq(s, i + 1, Len(s))

\* s[:n]
Take(s, n) == SubSeq(s, 1, IF n < Len(s) THEN n ELSE Len(s))

\* s.replace(old, new): every non-overlapping occurrence, left to right
RECURSIVE Replace(_, _, _)
Replace(s, old, new) ==
    IF s = <<>> THEN <<>>
    ELSE IF StartsWith(s, old) /\ old # <<>>
         THEN new \o Replace(Drop(s, Len(old)), old, new)
         ELSE <<Head(s)>> \o Replace(Tail(s), old, new)

\* sub in s
RECURSIVE Contains(_, _)
Contains(s, sub) ==
    \/ StartsWith(s, sub)
    \/ (s # <<>> /\ Contains(Tail(s), sub))

\* s.split(sep) for a one-character sep: always at least one piece
RECURSIVE SplitAcc(_, _, _)
SplitAcc(s, sep, cur) ==
    IF s = <<>> THEN <<cur>>
    ELSE IF Head(s) = sep
         THEN <<cur>> \o SplitAcc(Tail(s), sep, <<>>)
         ELSE SplitAcc(Tail(s), sep, Append(cur, Head(s)))

Split(s, sep) == SplitAcc(s, sep, <<>>)

\* sep.join(parts)
RECURSIVE Join(_, _)
Join(parts, sep) ==
    IF parts = <<>> THEN <<>>
    ELSE IF Len(parts) = 1 THEN parts[1]
         ELSE parts[1] \o sep \o Join(Tail(parts), sep)

NL == "\n"

\* hasattr(page, name): a page is a record holding only the attributes it has
HasAttr(page, name) == name \in DOMAIN page

(***************************************************************************)
(* replace_images_in_markdown and get_combined_markdown                    *)
(***************************************************************************)

\* f"![{img_name}]({img_name})"
ImageRef(name, target) == <<"!", "[">> \o name \o <<"]", "(">> \o target \o <<")">>

\* image_data[img.id] = img.image_base64 over page.images: a dict keeps the
\* position of a key's first insertion and the value of its last one
RECURSIVE DictItems(_, _)
DictItems(images, acc) ==
    IF images = <<>> THEN acc
    ELSE LET img == Head(images)
             at  == {i \in 1..Len(acc) : acc[i][1] = img.id}
         IN  IF at = {}
             THEN DictItems(Tail(images), Append(acc, <<img.id, img.image_base64>>))
             ELSE DictItems(Tail(images),
                            [i \in 1..Len(acc) |->
                               IF i \in at THEN <<img.id, img.image_base64>> ELSE acc[i]])

\* A substitution that writes the payload into the brackets as well
RECURSIVE ReplaceItemsBoth(_, _)
ReplaceItemsBoth(markdown_str, items) ==
    IF items = <<>> THEN markdown_str
    ELSE ReplaceItemsBoth(Replace(markdown_str,
                                  ImageRef(items[1][1], items[1][1]),
                                  ImageRef(items[1][2], items[1][2])),
                          Tail(items))

\* for img_name, base64_str in images_dict.items(): markdown_str.replace(...)
RECURSIVE ReplaceItems(_, _)
ReplaceItems(markdown_str, items) ==
    IF items = <<>> THEN markdown_str
    ELSE ReplaceItems(Replace(markdown_str,
                              ImageRef(items[1][1], items[1][1]),
                              ImageRef(items[1][1], items[1][2])),
                      Tail(items))

replace_images_in_markdown(markdown_str, images_dict) ==
    ReplaceItems(markdown_str, images_dict)

\* page.markdown is read on a page that has images: AttributeError when absent
MarkdownRaises(pages) ==
    \E i \in 1..Len(pages) : HasAttr(pages[i], "images") /\ ~HasAttr(pages[i], "markdown")

\* The markdowns list of a response on which no attribute access raises
RECURSIVE Markdowns(_)
Markdowns(pages) ==
    IF pages = <<>> THEN <<>>
    ELSE LET page == Head(pages)
         IN  IF HasAttr(page, "images")
             THEN <<replace_images_in_markdown(page.markdown,
                                               DictItems(page.images, <<>>))>>
                  \o Markdowns(Tail(pages))
             ELSE IF HasAttr(page, "markdown")
             THEN <<page.markdown>> \o Markdowns(Tail(pages))
             ELSE Markdowns(Tail(pages))

\* A combination that puts a single line break between the pages
get_combined_markdown_by_line(pages) == Join(Markdowns(pages), <<NL>>)

\* "\n\n".join(markdowns)
get_combined_markdown(pages) == Join(Markdowns(pages), <<NL, NL>>)

(***************************************************************************)
(* send_ocr_results: the plain-text transcript                             *)
(***************************************************************************)

\* text_content += paragraph.text + "\n" for each paragraph
RECURSIVE ParagraphsText(_)
ParagraphsText(paragraphs) ==
    IF paragraphs = <<>> THEN <<>>
    ELSE paragraphs[1].text \o <<NL>> \o ParagraphsText(Tail(paragraphs))

\* md_text.replace("# ", "").replace("## ", "").replace("### ", "")
RemoveHeaders(md_text) ==
    Replace(Replace(Replace(md_text, <<"#", " ">>, <<>>),
                    <<"#", "#", " ">>, <<>>),
            <<"#", "#", "#", " ">>, <<>>)

IsImageLine(line) ==
    StartsWith(line, <<"!", "[">>) \/ StartsWith(line, <<"<", "i", "m", "g">>)

RECURSIVE DropImageLines(_)
DropImageLines(lines) ==
    IF lines = <<>> THEN <<>>
    ELSE (IF IsImageLine(Head(lines)) THEN <<>> ELSE <<Head(lines)>>)
         \o DropImageLines(Tail(lines))

MarkdownToText(markdown) ==
    Join(DropImageLines(Split(RemoveHeaders(markdown), NL)), <<NL>>)

\* A transcript whose pages are not separated
PageTextUnbroken(page) ==
    IF HasAttr(page, "paragraphs") THEN ParagraphsText(page.paragraphs)
    ELSE IF HasAttr(page, "markdown") THEN MarkdownToText(page.markdown)
    ELSE <<>>

\* One round of the loop over ocr_response.pages
PageText(page) ==
    (IF HasAttr(page, "paragraphs") THEN ParagraphsText(page.paragraphs)
     ELSE IF HasAttr(page, "markdown") THEN MarkdownToText(page.markdown) \o <<NL>>
     ELSE <<>>)
    \o <<NL>>

RECURSIVE TextContent(_)
TextContent(pages) ==
    IF pages = <<>> THEN <<>>
    ELSE PageText(Head(pages)) \o TextContent(Tail(pages))

(***************************************************************************)
(* send_ocr_results: the preview shown in place of the status message      *)
(***************************************************************************)

PreviewLimit == 4096
PreviewCut == 4000

\* A preview that takes the limit as exclusive
PreviewMessageExclusive(text_content) ==
    IF Len(text_content) < PreviewLimit
    THEN [kind |-> "preview",
          body |-> Take(text_content, PreviewCut),
          note |-> Len(text_content) > PreviewCut]
    ELSE [kind |-> "toolong", body |-> <<>>, note |-> FALSE]

\* The text handed to processing_message.edit_text: the fixed header is
\* the message kind, body and note are what is appended to it
PreviewMessage(text_content) ==
    IF Len(text_content) <= PreviewLimit
    THEN [kind |-> "preview",
          body |-> Take(text_content, PreviewCut),
          note |-> Len(text_content) > PreviewCut]
    ELSE [kind |-> "toolong", body |-> <<>>, note |-> FALSE]

(***************************************************************************)
(* button_callback: the file sent is the stored string encoded as UTF-8    *)
(***************************************************************************)

\* Unicode code points of the characters the model's documents use
CodePoint(c) ==
    CASE c = NL -> 10 [] c = " " -> 32 [] c = "!" -> 33 [] c = "#" -> 35
      [] c = "(" -> 40 [] c = ")" -> 41 [] c = "B" -> 66 [] c = "T" -> 84
      [] c = "Z" -> 90 [] c = "[" -> 91 [] c = "]" -> 93 [] c = "a" -> 97
      [] c = "x" -> 120 [] c = "e_acute" -> 233
      [] OTHER -> 63

\* str.encode('utf-8') of one character
Utf8Char(c) ==
    LET cp == CodePoint(c)
    IN  IF cp < 128 THEN <<cp>>
        ELSE IF cp < 2048 THEN <<192 + (cp \div 64), 128 + (cp % 64)>>
        ELSE <<224 + (cp \div 4096), 128 + ((cp \div 64) % 64), 128 + (cp % 64)>>

\* str.encode('utf-8'), by halves
RECURSIVE Utf8Encode(_)
Utf8Encode(s) ==
    IF s = <<>> THEN <<>>
    ELSE IF Len(s) = 1 THEN Utf8Char(s[1])
    ELSE LET half == Len(s) \div 2
         IN  Utf8Encode(SubSeq(s, 1, half)) \o Utf8Encode(SubSeq(s, half + 1, Len(s)))

FormatTxt == <<"f", "o", "r", "m", "a", "t", "_", "t", "x", "t">>
FormatMd == <<"f", "o", "r", "m", "a", "t", "_", "m", "d">>
FormatCancel == <<"f", "o", "r", "m", "a", "t", "_", "c", "a", "n", "c", "e", "l">>

\* The callback_data of the three buttons of the selection message
Keyboard == {FormatTxt, FormatMd, FormatCancel}

\* query.data.split("_")[1], guarded by query.data.startswith("format_")
FormatType(data) ==
    IF StartsWith(data, <<"f", "o", "r", "m", "a", "t", "_">>)
    THEN Split(data, "_")[2]
    ELSE <<>>

(***************************************************************************)
(* File acquisition: the extension check                                   *)
(***************************************************************************)

LowerChar(c) ==
    CASE c = "P" -> "p" [] c = "D" -> "d" [] c = "F" -> "f" [] c = "N" -> "n"
      [] c = "G" -> "g" [] c = "J" -> "j" [] c = "E" -> "e"
      [] OTHER -> c

\* str.lower()
Lower(s) == [i \in 1..Len(s) |-> LowerChar(s[i])]

\* ['.pdf', '.jpg', '.jpeg', '.png']
SupportedExtensions ==
    { <<".", "p", "d", "f">>, <<".", "j", "p", "g">>,
      <<".", "j", "p", "e", "g">>, <<".", "p", "n", "g">> }

\* An extension check that forgets .lower()
IsSupportedAsWritten(extension) == extension \in SupportedExtensions

IsSupported(extension) == Lower(extension) \in SupportedExtensions

\* pathlib's Path(name).suffix for a name without directories
Suffix(name) ==
    LET dots == {i \in 1..Len(name) : name[i] = "."}
    IN  IF dots = {} THEN <<>>
        ELSE LET i == CHOOSE d \in dots : \A e \in dots : e <= d
             IN  IF i > 1 /\ i < Len(name) THEN SubSeq(name, i, Len(name)) ELSE <<>>

\* mimetypes.guess_extension on the content types the model's servers send;
\* <<>> stands for None
GuessExtension(content_type) ==
    CASE content_type = "application/pdf" -> <<".", "p", "d", "f">>
      [] content_type = "image/png" -> <<".", "p", "n", "g">>
      [] content_type = "text/html" -> <<".", "h", "t", "m", "l">>
      [] OTHER -> <<>>

\* 'image' in content_type
MentionsImage(content_type) == content_type \in {"image/png", "image/x-scan"}

\* link_command's filename: from Content-Disposition when it carries one,
\* else the tail of the URL
LinkFilename(url, response) ==
    IF response.disposition # <<>> THEN response.disposition ELSE url.tail

\* link_command's extension: content type, then filename, then a default
LinkExtension(url, response) ==
    LET guessed == GuessExtension(response.content_type)
        fromName == Suffix(LinkFilename(url, response))
    IN  IF guessed # <<>> THEN guessed
        ELSE IF fromName # <<>> THEN fromName
        ELSE IF MentionsImage(response.content_type) THEN <<".", "j", "p", "g">>
        ELSE <<".", "p", "d", "f">>

\* A validation that looks at the scheme alone
UrlIsValidByScheme(url) == url.scheme # ""

\* all([result.scheme, result.netloc]) on the parsed URL
UrlIsValid(url) == url.scheme # "" /\ url.netloc # ""

(***************************************************************************)
(* Bounds and inputs                                                       *)
(***************************************************************************)

\* Updates carrying a document, a photo or a /link command
MaxRequests == 2
\* Button presses
MaxPresses == 2

Requests == 1..MaxRequests
Presses == 1..MaxPresses
Sessions == {"s1", "s2"}

\* A page with markdown and one image, whose text holds a non-ASCII character
PageMd ==
    [markdown |-> <<"#", " ", "T", NL, "!", "[", "x", "]", "(", "x", ")", NL, "e_acute">>,
     images |-> << [id |-> <<"x">>, image_base64 |-> <<"Z", "Z">>] >>]

\* A page of two paragraphs
PageParagraphs == [paragraphs |-> << [text |-> <<"a">>], [text |-> <<"B">>] >>]

\* A page with images and no markdown attribute
PageBad == [images |-> <<>>]

\* A page of one paragraph, PreviewLimit - 1 characters long
PageLong == [paragraphs |-> << [text |-> [i \in 1..(PreviewLimit - 1) |-> "a"]] >>]

\* The responses the provider's OCR endpoint may return
Responses == << <<PageMd>>, <<PageParagraphs>>, <<PageBad>>, <<PageLong>> >>

\* Responses whose transcript fits the preview
ShortResponses ==
    {i \in DOMAIN Responses : Len(TextContent(Responses[i])) <= PreviewLimit}

\* How the synchronous provider calls of one request end, the OCR response
\* being one of docs
ProviderOutcomes(docs) ==
    [fail : {"upload", "sign", "ocr"}, resp : {0}] \cup [fail : {"none"}, resp : docs]

\* Names of the files Telegram serves for a document
DocFileNames ==
    { <<"a", ".", "p", "d", "f">>, <<"a", ".", "P", "N", "G">>,
      <<"a", ".", "g", "i", "f">>, <<"a">> }

\* The argument of /link as urllib.parse.urlparse sees it (malformed: urlparse
\* raises); tail is url.split('/')[-1]
LinkUrls ==
    { [scheme |-> "http", netloc |-> "h", malformed |-> FALSE,
       tail |-> <<"f", ".", "J", "P", "E", "G">>],
      [scheme |-> "http", netloc |-> "h", malformed |-> FALSE, tail |-> <<"f">>],
      [scheme |-> "", netloc |-> "", malformed |-> FALSE,
       tail |-> <<"f", ".", "p", "d", "f">>],
      [scheme |-> "http", netloc |-> "", malformed |-> FALSE,
       tail |-> <<"f", ".", "p", "d", "f">>],
      [scheme |-> "", netloc |-> "h", malformed |-> FALSE,
       tail |-> <<"f", ".", "p", "d", "f">>],
      [scheme |-> "http", netloc |-> "", malformed |-> TRUE, tail |-> <<"f">>] }

\* context.args of a /link command
LinkArgs == {<<>>} \cup {<<url>> : url \in LinkUrls}

\* What the server answers to session.get(url)
HttpResponses ==
    { [status |-> 404, content_type |-> "", disposition |-> <<>>],
      [status |-> 200, content_type |-> "application/pdf", disposition |-> <<>>],
      [status |-> 200, content_type |-> "text/html", disposition |-> <<>>],
      [status |-> 200, content_type |-> "image/x-scan", disposition |-> <<>>],
      [status |-> 200, content_type |-> "", disposition |-> <<>>],
      [status |-> 200, content_type |-> "", disposition |-> <<"b", ".", "g", "i", "f">>] }

(***************************************************************************)
(* State                                                                   *)
(***************************************************************************)

VARIABLES
    req,        \* per request: the handler's position and locals, the status
                \* message and the selection message it produced, its temp file
    nreq,       \* requests received so far
    user_data,  \* context.user_data of each session
    press,      \* per button press: button_callback's position and locals
    npress,     \* presses received so far
    lastStore,  \* per session: the response whose result was stored last (history)
    lastDone,   \* per session: the response of the request that returned last (history)
    sample      \* the argument and the result of a function applied on its own

vars == <<req, nreq, user_data, press, npress, lastStore, lastDone, sample>>

NoMessage == [kind |-> "none", body |-> <<>>, note |-> FALSE]

Message(kind) == [kind |-> kind, body |-> <<>>, note |-> FALSE]

NoUrl == [scheme |-> "", netloc |-> "", tail |-> <<>>, malformed |-> FALSE]

\* pc: the call the handler awaits.  calls: the calls of the handler's latest
\* step, in order.  err: an exception was raised inside the handler's try.
\* status: the status message in the chat.  sel, buttons: the text of the
\* selection message and the callback_data of the buttons it shows.
\* tmp: the temp file on disk.
IdleRequest ==
    [pc |-> "idle", kind |-> "none", sess |-> "none", url |-> NoUrl,
     ext |-> <<>>, resp |-> 0, err |-> FALSE, calls |-> <<>>,
     tmp |-> "none", status |-> NoMessage, sel |-> "none", buttons |-> {}]

NoFile == [filename |-> "", content |-> <<>>]

\* pc: the call button_callback awaits.  msg: the selection message pressed.
\* user: whose context.user_data the handler is given, the user who pressed.
\* data: query.data.  file: what reply_document is given.  again: a file had
\* already been delivered from that message when it was pressed (history).
IdlePress ==
    [pc |-> "idle", msg |-> 0, user |-> "none", data |-> <<>>, file |-> NoFile,
     again |-> FALSE]

NoSample == [fn |-> "none"]

Init ==
    /\ req = [r \in Requests |-> IdleRequest]
    /\ nreq = 0
    /\ user_data = [s \in Sessions |-> <<>>]
    /\ press = [p \in Presses |-> IdlePress]
    /\ npress = 0
    /\ lastStore = [s \in Sessions |-> 0]
    /\ lastDone = [s \in Sessions |-> 0]
    /\ sample = NoSample

\* The handler has returned or its exception has left it
Ended == {"done", "failed", "rejected", "escaped"}

\* The handler is resumed and makes the calls ops, then awaits pc
Issue(rec, pc, ops) == [rec EXCEPT !.pc = pc, !.calls = ops]

\* Acquisition is over (send_ocr_results or an except clause runs): the
\* handler, the URL and the extension are read no more
Acquired(rec) == [rec EXCEPT !.kind = "none", !.url = NoUrl, !.ext = <<>>]

\* The handler ends: its locals are gone; the messages and the temp file stay
End(rec, pc) == [Acquired(rec) EXCEPT !.pc = pc, !.resp = 0, !.calls = <<>>]

(***************************************************************************)
(* The except clauses                                                      *)
(***************************************************************************)

\* An except clause that logs and returns, the status message left alone
RaiseUnreported(rec, ops) == [End(rec, "failed") EXCEPT !.err = TRUE]

\* except Exception as e of a handler, after the calls ops of this step:
\* edit the status message to show e
Raise(rec, ops) ==
    [Issue(Acquired(rec), "edit_error", ops \o <<"edit_error">>) EXCEPT !.err = TRUE]

\* except Exception as e of send_ocr_results
RaiseInResults(rec, ops) ==
    [Issue(Acquired(rec), "edit_results_error", ops \o <<"edit_results_error">>)
        EXCEPT !.err = TRUE]

(***************************************************************************)
(* send_ocr_results                                                        *)
(***************************************************************************)

\* A send_ocr_results that sends the selection message before any preview
EnterResultsSelectionFirst(rec, ops) ==
    IF MarkdownRaises(Responses[rec.resp])
    THEN RaiseInResults(rec, ops \o <<"normalize">>)
    ELSE Issue(Acquired(rec), "reply_selection", ops \o <<"normalize", "reply_selection">>)

\* Up to the first await, after the calls ops of this step: both strings are
\* built, then the preview is sent
EnterResults(rec, ops) ==
    IF MarkdownRaises(Responses[rec.resp])
    THEN RaiseInResults(rec, ops \o <<"normalize">>)
    ELSE Issue(Acquired(rec), "edit_preview", ops \o <<"normalize", "edit_preview">>)

\* A store that keeps the result the session already holds
StoreResultKeepFirst(data, pages) ==
    IF "ocr_text" \in DOMAIN data THEN data
    ELSE [ocr_text |-> TextContent(pages), ocr_markdown |-> get_combined_markdown(pages)]

\* A store whose second assignment is lost: the markdown a session already
\* holds stays beside the new text
StoreResultMarkdownKept(data, pages) ==
    IF "ocr_markdown" \in DOMAIN data
    THEN [ocr_text |-> TextContent(pages), ocr_markdown |-> data.ocr_markdown]
    ELSE [ocr_text |-> TextContent(pages), ocr_markdown |-> get_combined_markdown(pages)]

\* context.user_data["ocr_text"] = text_content;
\* context.user_data["ocr_markdown"] = markdown_content
StoreResult(data, pages) ==
    [ocr_text |-> TextContent(pages), ocr_markdown |-> get_combined_markdown(pages)]

\* update.message.reply_text("Choose a download format:", reply_markup=...)
SelectionShown(rec) == [rec EXCEPT !.sel = "choose", !.buttons = Keyboard]

\* The preview edit returned: store the result, send the selection message
ResultsPreviewEdited(r) ==
    /\ req[r].pc = "edit_preview"
    /\ \E ok \in BOOLEAN :
         IF ok
         THEN LET pages == Responses[req[r].resp]
              IN  /\ req' = [req EXCEPT ![r] =
                        [Issue(@, "reply_selection", <<"store", "reply_selection">>)
                            EXCEPT !.status = PreviewMessage(TextContent(pages))]]
                  /\ user_data' = [user_data EXCEPT ![req[r].sess] = StoreResult(@, pages)]
                  /\ lastStore' = [lastStore EXCEPT ![req[r].sess] = req[r].resp]
         ELSE /\ req' = [req EXCEPT ![r] = RaiseInResults(@, <<>>)]
              /\ UNCHANGED <<user_data, lastStore>>
    /\ UNCHANGED <<nreq, press, npress, lastDone, sample>>

\* The selection message with the three buttons was sent: the handler returns
ResultsSelectionSent(r) ==
    /\ req[r].pc = "reply_selection"
    /\ \E ok \in BOOLEAN :
         IF ok
         THEN /\ req' = [req EXCEPT ![r] = SelectionShown(End(@, "done"))]
              /\ lastDone' = [lastDone EXCEPT ![req[r].sess] = req[r].resp]
         ELSE /\ req' = [req EXCEPT ![r] = RaiseInResults(@, <<>>)]
              /\ UNCHANGED lastDone
    /\ UNCHANGED <<nreq, user_data, press, npress, lastStore, sample>>

\* The edit of send_ocr_results' except clause returned; when it raised, the
\* exception reaches the except clause of the calling handler
ResultsErrorEdited(r) ==
    /\ req[r].pc = "edit_results_error"
    /\ \E ok \in BOOLEAN :
         req' = [req EXCEPT ![r] =
                   IF ok
                   THEN [End(@, "failed") EXCEPT !.status = Message("results_error")]
                   ELSE Raise(@, <<>>)]
    /\ UNCHANGED <<nreq, user_data, press, npress, lastStore, lastDone, sample>>

\* The edit of a handler's except clause returned; when it raised, the
\* exception leaves the handler
HandlerErrorEdited(r) ==
    /\ req[r].pc = "edit_error"
    /\ \E ok \in BOOLEAN :
         req' = [req EXCEPT ![r] =
                   IF ok
                   THEN [End(@, "failed") EXCEPT !.status = Message("handler_error")]
                   ELSE End(@, "escaped")]
    /\ UNCHANGED <<nreq, user_data, press, npress, lastStore, lastDone, sample>>

\* The edit that reports an unsupported type or a failed download returned
\* (inside the handler's try), and the handler returns
RejectionEdited(r) ==
    /\ req[r].pc \in {"edit_unsupported", "edit_bad_status"}
    /\ \E ok \in BOOLEAN :
         req' = [req EXCEPT ![r] =
                   IF ok
                   THEN [End(@, "failed") EXCEPT
                            !.status = Message(IF req[r].pc = "edit_unsupported"
                                               THEN "unsupported" ELSE "bad_status")]
                   ELSE Raise(@, <<>>)]
    /\ UNCHANGED <<nreq, user_data, press, npress, lastStore, lastDone, sample>>

(***************************************************************************)
(* The provider calls: synchronous, so one step with the code around them  *)
(***************************************************************************)

\* Provider calls that try a failed upload a second time
UploadAndOcrRetrying(rec, ops, out) ==
    IF out.fail = "upload" THEN Raise(rec, ops \o <<"upload", "upload">>)
    ELSE IF out.fail = "sign" THEN Raise(rec, ops \o <<"upload", "sign">>)
    ELSE IF out.fail = "ocr" THEN Raise(rec, ops \o <<"upload", "sign", "ocr">>)
    ELSE EnterResults([rec EXCEPT !.tmp = "deleted", !.resp = out.resp],
                      ops \o <<"upload", "sign", "ocr", "unlink">>)

\* Provider calls that leave the temp file on disk after the OCR
UploadAndOcrKeepingFile(rec, ops, out) ==
    IF out.fail = "upload" THEN Raise(rec, ops \o <<"upload">>)
    ELSE IF out.fail = "sign" THEN Raise(rec, ops \o <<"upload", "sign">>)
    ELSE IF out.fail = "ocr" THEN Raise(rec, ops \o <<"upload", "sign", "ocr">>)
    ELSE EnterResults([rec EXCEPT !.resp = out.resp], ops \o <<"upload", "sign", "ocr">>)

\* After the calls ops of this step: files.upload, files.get_signed_url,
\* ocr.process, os.unlink, send_ocr_results
UploadAndOcr(rec, ops, out) ==
    IF out.fail = "upload" THEN Raise(rec, ops \o <<"upload">>)
    ELSE IF out.fail = "sign" THEN Raise(rec, ops \o <<"upload", "sign">>)
    ELSE IF out.fail = "ocr" THEN Raise(rec, ops \o <<"upload", "sign", "ocr">>)
    ELSE EnterResults([rec EXCEPT !.tmp = "deleted", !.resp = out.resp],
                      ops \o <<"upload", "sign", "ocr", "unlink">>)

\* process_photo with a directly fetchable file_path: ocr.process only
DirectOcr(rec, out) ==
    IF out.fail = "ocr" THEN Raise(rec, <<"ocr">>)
    ELSE EnterResults([rec EXCEPT !.resp = out.resp], <<"ocr">>)

\* A handler starts on an update of session s and makes its first call
NewRequest(kind, s, pc) ==
    [IdleRequest EXCEPT !.pc = pc, !.kind = kind, !.sess = s, !.calls = <<pc>>]

\* An update may arrive; the sessions being alike, the first one is of s1
MayReceive(s) == nreq < MaxRequests /\ (nreq = 0 => s = "s1")

(***************************************************************************)
(* process_document                                                        *)
(***************************************************************************)

\* A document arrives: the status message is sent, outside the try
ReceiveDocument(s) ==
    /\ MayReceive(s)
    /\ nreq' = nreq + 1
    /\ req' = [req EXCEPT ![nreq + 1] = NewRequest("document", s, "reply_status")]
    /\ UNCHANGED <<user_data, press, npress, lastStore, lastDone, sample>>

DocumentStatusSent(r) ==
    /\ req[r].kind = "document" /\ req[r].pc = "reply_status"
    /\ \E ok \in BOOLEAN :
         req' = [req EXCEPT ![r] =
                   IF ok
                   THEN [Issue(@, "get_file", <<"get_file">>)
                            EXCEPT !.status = Message("processing")]
                   ELSE End(@, "escaped")]
    /\ UNCHANGED <<nreq, user_data, press, npress, lastStore, lastDone, sample>>

\* get_file returned: the extension check, then the temp file and the download
DocumentGotFile(r) ==
    /\ req[r].kind = "document" /\ req[r].pc = "get_file"
    /\ \/ req' = [req EXCEPT ![r] = Raise(@, <<>>)]
       \/ \E name \in DocFileNames :
            LET file_extension == Lower(Suffix(name))
            IN  req' = [req EXCEPT ![r] =
                  IF file_extension \notin SupportedExtensions
                  THEN [Issue(@, "edit_unsupported", <<"edit_unsupported">>)
                           EXCEPT !.ext = file_extension]
                  ELSE [Issue(@, "download", <<"tmp_create", "download">>)
                           EXCEPT !.ext = file_extension, !.tmp = "exists"]]
    /\ UNCHANGED <<nreq, user_data, press, npress, lastStore, lastDone, sample>>

DocumentDownloaded(r, docs) ==
    /\ req[r].kind = "document" /\ req[r].pc = "download"
    /\ \/ req' = [req EXCEPT ![r] = Raise(@, <<>>)]
       \/ \E out \in ProviderOutcomes(docs) :
            req' = [req EXCEPT ![r] = UploadAndOcr(@, <<>>, out)]
    /\ UNCHANGED <<nreq, user_data, press, npress, lastStore, lastDone, sample>>

(***************************************************************************)
(* process_photo                                                           *)
(***************************************************************************)

ReceivePhoto(s) ==
    /\ MayReceive(s)
    /\ nreq' = nreq + 1
    /\ req' = [req EXCEPT ![nreq + 1] = NewRequest("photo", s, "reply_status")]
    /\ UNCHANGED <<user_data, press, npress, lastStore, lastDone, sample>>

PhotoStatusSent(r) ==
    /\ req[r].kind = "photo" /\ req[r].pc = "reply_status"
    /\ \E ok \in BOOLEAN :
         req' = [req EXCEPT ![r] =
                   IF ok
                   THEN [Issue(@, "get_file", <<"get_file">>)
                            EXCEPT !.status = Message("processing")]
                   ELSE End(@, "escaped")]
    /\ UNCHANGED <<nreq, user_data, press, npress, lastStore, lastDone, sample>>

\* get_file returned: OCR on the file's URL when file_path starts with
\* 'http', else the temp file and the download
PhotoGotFile(r, docs) ==
    /\ req[r].kind = "photo" /\ req[r].pc = "get_file"
    /\ \/ req' = [req EXCEPT ![r] = Raise(@, <<>>)]
       \/ \E out \in {o \in ProviderOutcomes(docs) : o.fail \in {"ocr", "none"}} :
            req' = [req EXCEPT ![r] = DirectOcr(@, out)]
       \/ req' = [req EXCEPT ![r] =
                    [Issue(@, "download", <<"tmp_create", "download">>)
                        EXCEPT !.tmp = "exists"]]
    /\ UNCHANGED <<nreq, user_data, press, npress, lastStore, lastDone, sample>>

PhotoDownloaded(r, docs) ==
    /\ req[r].kind = "photo" /\ req[r].pc = "download"
    /\ \/ req' = [req EXCEPT ![r] = Raise(@, <<>>)]
       \/ \E out \in ProviderOutcomes(docs) :
            req' = [req EXCEPT ![r] = UploadAndOcr(@, <<>>, out)]
    /\ UNCHANGED <<nreq, user_data, press, npress, lastStore, lastDone, sample>>

(***************************************************************************)
(* link_command                                                            *)
(***************************************************************************)

\* The first call of link_command on the argument url: the status message
\* for a valid URL, the reply of the except clause when urlparse raises, else
\* the invalid-URL reply
LinkFirstCall(url) ==
    IF url.malformed THEN "reply_malformed"
    ELSE IF UrlIsValid(url) THEN "reply_status"
    ELSE "reply_invalid"

\* /link args: the usage reply when there is no argument
ReceiveLink(s) ==
    /\ MayReceive(s)
    /\ nreq' = nreq + 1
    /\ \E args \in LinkArgs :
         req' = [req EXCEPT ![nreq + 1] =
                   IF Len(args) < 1 THEN NewRequest("link", s, "reply_usage")
                   ELSE [NewRequest("link", s, LinkFirstCall(args[1]))
                            EXCEPT !.url = args[1]]]
    /\ UNCHANGED <<user_data, press, npress, lastStore, lastDone, sample>>

\* The usage reply or a reply about the URL returned, and link_command
\* returns.  The invalid-URL reply is inside the try of the validation: when
\* it raises, the bare except sends the malformed-URL reply; a raise of the
\* other two leaves the handler
LinkReplied(r) ==
    /\ req[r].pc \in {"reply_usage", "reply_invalid", "reply_malformed"}
    /\ \E ok \in BOOLEAN :
         req' = [req EXCEPT ![r] =
                   IF ok THEN End(@, "rejected")
                   ELSE IF req[r].pc = "reply_invalid"
                   THEN Issue(@, "reply_malformed", <<"reply_malformed">>)
                   ELSE End(@, "escaped")]
    /\ UNCHANGED <<nreq, user_data, press, npress, lastStore, lastDone, sample>>

LinkStatusSent(r) ==
    /\ req[r].kind = "link" /\ req[r].pc = "reply_status"
    /\ \E ok \in BOOLEAN :
         req' = [req EXCEPT ![r] =
                   IF ok
                   THEN [Issue(@, "http_get", <<"http_get">>)
                            EXCEPT !.status = Message("processing")]
                   ELSE End(@, "escaped")]
    /\ UNCHANGED <<nreq, user_data, press, npress, lastStore, lastDone, sample>>

\* session.get returned: the status check, the extension, then response.read
LinkGot(r) ==
    /\ req[r].kind = "link" /\ req[r].pc = "http_get"
    /\ \/ req' = [req EXCEPT ![r] = Raise(@, <<>>)]
       \/ \E response \in HttpResponses :
            LET extension == LinkExtension(req[r].url, response)
            IN  req' = [req EXCEPT ![r] =
                  IF response.status # 200
                  THEN Issue(@, "edit_bad_status", <<"edit_bad_status">>)
                  ELSE IF ~IsSupported(extension)
                  THEN [Issue(@, "edit_unsupported", <<"edit_unsupported">>)
                           EXCEPT !.ext = extension]
                  ELSE [Issue(@, "read", <<"read">>) EXCEPT !.ext = extension]]
    /\ UNCHANGED <<nreq, user_data, press, npress, lastStore, lastDone, sample>>

\* response.read returned: the temp file is written, then the provider calls
LinkRead(r, docs) ==
    /\ req[r].kind = "link" /\ req[r].pc = "read"
    /\ \/ req' = [req EXCEPT ![r] = Raise(@, <<>>)]
       \/ \E out \in ProviderOutcomes(docs) :
            req' = [req EXCEPT ![r] =
                      UploadAndOcr([@ EXCEPT !.tmp = "exists"], <<"tmp_create">>, out)]
    /\ UNCHANGED <<nreq, user_data, press, npress, lastStore, lastDone, sample>>

(***************************************************************************)
(* button_callback                                                         *)
(***************************************************************************)

\* A button of a selection message that still shows its keyboard is pressed
\* in the chat, by the user whose request produced the message or, in a chat
\* of several users, by another one; the handler starts with query.answer()
PressButton(r) ==
    /\ npress < MaxPresses
    /\ npress' = npress + 1
    /\ \E data \in req[r].buttons, user \in Sessions :
         press' = [press EXCEPT ![npress + 1] =
                     [pc |-> "answer", msg |-> r, user |-> user, data |-> data,
                      file |-> NoFile,
                      again |-> \E q \in Presses :
                                  press[q].msg = r /\ press[q].pc = "delivered"]]
    /\ UNCHANGED <<req, nreq, user_data, lastStore, lastDone, sample>>

\* button_callback ends: what stays is which message was pressed and how the
\* press ended
PressEnd(rec, pc) ==
    [rec EXCEPT !.pc = pc, !.user = "none", !.data = <<>>, !.file = NoFile]

\* An attachment that always carries the plain text
AttachmentOfText(filename, data, key) ==
    [filename |-> filename, content |-> Utf8Encode(data["ocr_text"])]

\* What reply_document is given for the string stored under key
Attachment(filename, data, key) ==
    [filename |-> filename, content |-> Utf8Encode(data[key])]

\* A handler that reads the result of the user whose request produced the
\* message pressed, whoever pressed it
PressAnsweredFromOwner(p) ==
    /\ press[p].pc = "answer"
    /\ \E ok \in BOOLEAN :
         LET data == user_data[req[press[p].msg].sess]
             format_type == FormatType(press[p].data)
         IN  press' = [press EXCEPT ![p] =
               IF ~ok THEN PressEnd(@, "escaped")
               ELSE IF format_type = <<"t", "x", "t">>
               THEN IF "ocr_text" \in DOMAIN data
                    THEN [@ EXCEPT !.pc = "reply_document",
                             !.file = Attachment("extracted_text.txt", data, "ocr_text")]
                    ELSE PressEnd(@, "escaped")
               ELSE IF format_type = <<"m", "d">>
               THEN IF "ocr_markdown" \in DOMAIN data
                    THEN [@ EXCEPT !.pc = "reply_document",
                             !.file = Attachment("extracted_content.md", data,
                                                 "ocr_markdown")]
                    ELSE PressEnd(@, "escaped")
               ELSE IF format_type = <<"c", "a", "n", "c", "e", "l">>
               THEN [@ EXCEPT !.pc = "edit_cancel"]
               ELSE PressEnd(@, "done")]
    /\ UNCHANGED <<req, nreq, user_data, npress, lastStore, lastDone, sample>>

\* query.answer() returned: no try in this handler, so a raise leaves it; the
\* stored string is read here, a KeyError when the user who pressed holds none
PressAnswered(p) ==
    /\ press[p].pc = "answer"
    /\ \E ok \in BOOLEAN :
         LET data == user_data[press[p].user]
             format_type == FormatType(press[p].data)
         IN  press' = [press EXCEPT ![p] =
               IF ~ok THEN PressEnd(@, "escaped")
               ELSE IF format_type = <<"t", "x", "t">>
               THEN IF "ocr_text" \in DOMAIN data
                    THEN [@ EXCEPT !.pc = "reply_document",
                             !.file = Attachment("extracted_text.txt", data, "ocr_text")]
                    ELSE PressEnd(@, "escaped")
               ELSE IF format_type = <<"m", "d">>
               THEN IF "ocr_markdown" \in DOMAIN data
                    THEN [@ EXCEPT !.pc = "reply_document",
                             !.file = Attachment("extracted_content.md", data,
                                                 "ocr_markdown")]
                    ELSE PressEnd(@, "escaped")
               ELSE IF format_type = <<"c", "a", "n", "c", "e", "l">>
               THEN [@ EXCEPT !.pc = "edit_cancel"]
               ELSE PressEnd(@, "done")]
    /\ UNCHANGED <<req, nreq, user_data, npress, lastStore, lastDone, sample>>

\* A delivery that also removes the keyboard of the message pressed
PressDocumentSentOnce(p) ==
    /\ press[p].pc = "reply_document"
    /\ \E ok \in BOOLEAN :
         /\ press' = [press EXCEPT ![p] =
                        PressEnd(@, IF ok THEN "delivered" ELSE "escaped")]
         /\ req' = [req EXCEPT ![press[p].msg].buttons = IF ok THEN {} ELSE @]
    /\ UNCHANGED <<nreq, user_data, npress, lastStore, lastDone, sample>>

\* reply_document returned: the file is in the chat, or the raise leaves the handler
PressDocumentSent(p) ==
    /\ press[p].pc = "reply_document"
    /\ \E ok \in BOOLEAN :
         press' = [press EXCEPT ![p] =
                     PressEnd(@, IF ok THEN "delivered" ELSE "escaped")]
    /\ UNCHANGED <<req, nreq, user_data, npress, lastStore, lastDone, sample>>

\* A cancel edit that passes the keyboard on
CancelShownWithKeyboard(rec) == [rec EXCEPT !.sel = "cancelled"]

\* query.message.edit_text("Operation cancelled"): an edit without
\* reply_markup, so the message loses its keyboard
CancelShown(rec) == [rec EXCEPT !.sel = "cancelled", !.buttons = {}]

\* The cancel edit returned
PressCancelEdited(p) ==
    /\ press[p].pc = "edit_cancel"
    /\ \E ok \in BOOLEAN :
         IF ok
         THEN /\ press' = [press EXCEPT ![p] = PressEnd(@, "cancelled")]
              /\ req' = [req EXCEPT ![press[p].msg] = CancelShown(@)]
         ELSE /\ press' = [press EXCEPT ![p] = PressEnd(@, "escaped")]
              /\ UNCHANGED req
    /\ UNCHANGED <<nreq, user_data, npress, lastStore, lastDone, sample>>

(***************************************************************************)
(* The dispatcher                                                          *)
(***************************************************************************)

Next ==
    \/ \E s \in Sessions : ReceiveDocument(s)
    \/ \E s \in Sessions : ReceivePhoto(s)
    \/ \E s \in Sessions : ReceiveLink(s)
    \/ \E r \in Requests : DocumentStatusSent(r)
    \/ \E r \in Requests : DocumentGotFile(r)
    \/ \E r \in Requests : DocumentDownloaded(r, ShortResponses)
    \/ \E r \in Requests : PhotoStatusSent(r)
    \/ \E r \in Requests : PhotoGotFile(r, ShortResponses)
    \/ \E r \in Requests : PhotoDownloaded(r, ShortResponses)
    \/ \E r \in Requests : LinkReplied(r)
    \/ \E r \in Requests : LinkStatusSent(r)
    \/ \E r \in Requests : LinkGot(r)
    \/ \E r \in Requests : LinkRead(r, ShortResponses)
    \/ \E r \in Requests : ResultsPreviewEdited(r)
    \/ \E r \in Requests : ResultsSelectionSent(r)
    \/ \E r \in Requests : ResultsErrorEdited(r)
    \/ \E r \in Requests : HandlerErrorEdited(r)
    \/ \E r \in Requests : RejectionEdited(r)
    \/ \E r \in Requests : PressButton(r)
    \/ \E p \in Presses : PressAnswered(p)
    \/ \E p \in Presses : PressDocumentSent(p)
    \/ \E p \in Presses : PressCancelEdited(p)

Spec == Init /\ [][Next]_vars

(***************************************************************************)
(* The request handlers alone, the provider returning any response, the    *)
(* long one included                                                       *)
(***************************************************************************)

AllResponses == DOMAIN Responses

NextLong ==
    \/ \E s \in Sessions : ReceiveDocument(s)
    \/ \E s \in Sessions : ReceivePhoto(s)
    \/ \E s \in Sessions : ReceiveLink(s)
    \/ \E r \in Requests : DocumentStatusSent(r)
    \/ \E r \in Requests : DocumentGotFile(r)
    \/ \E r \in Requests : DocumentDownloaded(r, AllResponses)
    \/ \E r \in Requests : PhotoStatusSent(r)
    \/ \E r \in Requests : PhotoGotFile(r, AllResponses)
    \/ \E r \in Requests : PhotoDownloaded(r, AllResponses)
    \/ \E r \in Requests : LinkReplied(r)
    \/ \E r \in Requests : LinkStatusSent(r)
    \/ \E r \in Requests : LinkGot(r)
    \/ \E r \in Requests : LinkRead(r, AllResponses)
    \/ \E r \in Requests : ResultsPreviewEdited(r)
    \/ \E r \in Requests : ResultsSelectionSent(r)
    \/ \E r \in Requests : ResultsErrorEdited(r)
    \/ \E r \in Requests : HandlerErrorEdited(r)
    \/ \E r \in Requests : RejectionEdited(r)

SpecLong == Init /\ [][NextLong]_vars

(***************************************************************************)
(* The preview of send_ocr_results applied to transcripts of the lengths   *)
(* around its two thresholds                                               *)
(***************************************************************************)

\* Lengths this far from 0, PreviewCut and PreviewLimit are tried
PreviewWindow == 8

PreviewLengths ==
    (0..PreviewWindow)
    \cup ((PreviewCut - PreviewWindow)..(PreviewCut + PreviewWindow))
    \cup ((PreviewLimit - PreviewWindow)..(PreviewLimit + PreviewWindow))

\* Transcripts in which neighbouring characters differ
PreviewPatterns == { <<"a", "B", NL>>, <<"x", " ", "T", "e_acute", NL>> }

SampleText(pattern, n) == [i \in 1..n |-> pattern[(i % Len(pattern)) + 1]]

InitPreview ==
    /\ req = [r \in Requests |-> IdleRequest]
    /\ nreq = 0
    /\ user_data = [s \in Sessions |-> <<>>]
    /\ press = [p \in Presses |-> IdlePress]
    /\ npress = 0
    /\ lastStore = [s \in Sessions |-> 0]
    /\ lastDone = [s \in Sessions |-> 0]
    /\ \E pattern \in PreviewPatterns, n \in PreviewLengths :
         sample = [fn |-> "preview", text |-> SampleText(pattern, n),
                   applied |-> FALSE, shown |-> NoMessage]

ApplyPreview ==
    /\ sample.fn = "preview" /\ ~sample.applied
    /\ sample' = [sample EXCEPT !.applied = TRUE, !.shown = PreviewMessage(sample.text)]
    /\ UNCHANGED <<req, nreq, user_data, press, npress, lastStore, lastDone>>

NextPreview == ApplyPreview

SpecPreview == InitPreview /\ [][NextPreview]_vars

(***************************************************************************)
(* The normalization of send_ocr_results (both strings) applied to         *)
(* documents of a few pages                                                *)
(***************************************************************************)

\* Pages of a document
MaxPages == 2

\* The markdown of a line sequence
Lines(lines) == Join(lines, <<NL>>)

\* Pages as the provider may shape them: markdown only (headings of three
\* levels, image lines, a marker inside a line), markdown with images (one
\* image, a reference beside other text in parentheses, no image at all),
\* paragraphs, neither, and images without markdown
SamplePages ==
    { [markdown |-> <<"#", " ", "T">>],
      [markdown |-> <<"#", "#", " ", "T">>],
      [markdown |-> Lines(<< <<"#", "#", "#", " ", "T">>, <<"a">> >>)],
      [markdown |-> Lines(<< <<"a">>, <<"!", "[", "x", "]", "(", "x", ")">>, <<"B">> >>)],
      [markdown |-> Lines(<< <<"<", "i", "m", "g">>, <<"a", "#", " ", "B">> >>)],
      [markdown |-> <<"!", "[", "x", "]", "(", "x", ")", " ", "T">>,
       images |-> << [id |-> <<"x">>, image_base64 |-> <<"Z", "Z">>] >>],
      [markdown |-> <<"!", "[", "x", "]", "(", "x", ")", "(", "x", ")",
                      "!", "[", "x", "]", "(", "x", ")">>,
       images |-> << [id |-> <<"x">>, image_base64 |-> <<"Z">>],
                     [id |-> <<"a">>, image_base64 |-> <<"B">>] >>],
      [markdown |-> <<"a", NL, "!", "[", "x", "]", "(", "x", ")">>, images |-> <<>>],
      [paragraphs |-> << [text |-> <<"a">>], [text |-> <<"B">>] >>],
      [paragraphs |-> <<>>],
      [index |-> <<"a">>],
      [images |-> <<>>] }

RECURSIVE SampleDocuments(_)
SampleDocuments(n) ==
    IF n = 0 THEN {<<>>}
    ELSE LET shorter == SampleDocuments(n - 1)
         IN  shorter \cup {Append(d, page) : d \in {e \in shorter : Len(e) = n - 1},
                                             page \in SamplePages}

InitNormalize ==
    /\ req = [r \in Requests |-> IdleRequest]
    /\ nreq = 0
    /\ user_data = [s \in Sessions |-> <<>>]
    /\ press = [p \in Presses |-> IdlePress]
    /\ npress = 0
    /\ lastStore = [s \in Sessions |-> 0]
    /\ lastDone = [s \in Sessions |-> 0]
    /\ \E pages \in SampleDocuments(MaxPages) :
         sample = [fn |-> "normalize", pages |-> pages, applied |-> FALSE,
                   raised |-> FALSE, text |-> <<>>, markdown |-> <<>>]

\* text_content is built, then get_combined_markdown is called
Normalize ==
    /\ sample.fn = "normalize" /\ ~sample.applied
    /\ sample' = [sample EXCEPT
                    !.applied = TRUE,
                    !.text = TextContent(sample.pages),
                    !.raised = MarkdownRaises(sample.pages),
                    !.markdown = IF MarkdownRaises(sample.pages) THEN <<>>
                                 ELSE get_combined_markdown(sample.pages)]
    /\ UNCHANGED <<req, nreq, user_data, press, npress, lastStore, lastDone>>

NextNormalize == Normalize

SpecNormalize == InitNormalize /\ [][NextNormalize]_vars

(***************************************************************************)
(* Properties.  A message is sent or edited when the handler's call        *)
(* returns; pc names the call a handler awaits, calls the calls of its     *)
(* latest step.                                                            *)
(***************************************************************************)

\* The pair send_ocr_results builds from response i
NormalizedResult(i) ==
    [ocr_text |-> TextContent(Responses[i]),
     ocr_markdown |-> get_combined_markdown(Responses[i])]

\* C1 as stated: the result a session holds is the normalization of the
\* response of the request of that session that completed most recently.
C1_LastCompleted ==
    \A s \in Sessions :
        lastDone[s] # 0 => user_data[s] = NormalizedResult(lastDone[s])

\* C1, amended: a session holds nothing until a request of it reaches the
\* store of send_ocr_results, and from then on exactly the pair normalized
\* from the response of the request that stored most recently, whether or not
\* that request has completed; each store replaces the pair held before.
C1_LastStored ==
    \A s \in Sessions :
        /\ user_data[s] = IF lastStore[s] = 0 THEN <<>>
                          ELSE NormalizedResult(lastStore[s])
        /\ lastDone[s] # 0 => lastStore[s] # 0

\* A session whose completed request's result was replaced by the store of a
\* request with another response
C1_Replaced ==
    \E s \in Sessions :
        /\ lastDone[s] # 0
        /\ lastStore[s] # lastDone[s]
        /\ user_data[s] = NormalizedResult(lastStore[s])
        /\ NormalizedResult(lastStore[s]) # NormalizedResult(lastDone[s])

\* What the status message shows after an error was reported
ErrorKinds == {"handler_error", "results_error", "unsupported", "bad_status"}

\* Presses made on the selection message of request r
PressesOn(r) == {p \in Presses : press[p].pc # "idle" /\ press[p].msg = r}

C3_NoEscape ==
    /\ \A r \in Requests : req[r].pc # "escaped"
    /\ \A p \in Presses : press[p].pc # "escaped"

\* C4: in every request whose normalization succeeded, the preview edit is
\* made while the status message shows the processing notice; the selection
\* message is the next call once that edit returned, in the short-transcript
\* branch (preview) as in the long one (too-long notice); and a selection
\* message, with the buttons format_txt, format_md and format_cancel, exists
\* only where the status message shows the preview or the too-long notice.
C4_Order ==
    [][\A r \in Requests :
         LET a == req[r]
             b == req'[r]
         IN  /\ b.pc = "edit_preview" =>
                  /\ b.status.kind = "processing"
                  /\ b.sel = "none"
             /\ b.pc = "reply_selection" =>
                  /\ a.pc \in {"edit_preview", "reply_selection"}
                  /\ b.sel = "none"
                  /\ b.status.kind =
                       IF Len(TextContent(Responses[b.resp])) <= 4096
                       THEN "preview" ELSE "toolong"
             /\ (a.pc = "edit_preview" /\ b # a) =>
                  b.pc \in {"reply_selection", "edit_results_error"}
             /\ (a.sel = "none" /\ b.sel # "none") =>
                  /\ a.pc = "reply_selection"
                  /\ b.pc = "done"
                  /\ b.buttons = {FormatTxt, FormatMd, FormatCancel}
             /\ b.sel # "none" => b.status.kind \in {"preview", "toolong"}
             /\ (b.status.kind \in {"preview", "toolong"} /\ b.status # a.status) =>
                  a.status.kind = "processing"
      ]_vars

\* Two requests that got their selection message, one after the preview and
\* one after the too-long notice
C4_BothBranches ==
    \E r1, r2 \in Requests :
        /\ req[r1].pc = "done" /\ req[r1].sel = "choose"
        /\ req[r1].status.kind = "preview"
        /\ req[r2].pc = "done" /\ req[r2].sel = "choose"
        /\ req[r2].status.kind = "toolong"

\* C5 as stated: a transcript of more than 4096 characters gets the too-long
\* notice, and every transcript of at most 4096 characters is shown whole.
C5_ShownInFull ==
    (sample.fn = "preview" /\ sample.applied) =>
        IF Len(sample.text) > 4096
        THEN sample.shown.kind = "toolong"
        ELSE sample.shown.kind = "preview" /\ sample.shown.body = sample.text

\* C5, amended: a transcript of more than 4096 characters (4097 the first)
\* gets the too-long notice and none of its text; a transcript of at most 4096
\* characters gets the preview, which holds its first 4000 characters: the
\* whole transcript up to length 4000, and from 4001 to 4096 a cut transcript
\* followed by the note that the complete content is in the file.
C5_FirstFourThousand ==
    (sample.fn = "preview" /\ sample.applied) =>
        LET n == Len(sample.text)
            shown == sample.shown
        IN  IF n > 4096
            THEN shown.kind = "toolong" /\ shown.body = <<>> /\ ~shown.note
            ELSE /\ shown.kind = "preview"
                 /\ Len(shown.body) = (IF n <= 4000 THEN n ELSE 4000)
                 /\ \A i \in 1..Len(shown.body) : shown.body[i] = sample.text[i]
                 /\ shown.note = (n > 4000)

\* The preview of a transcript of exactly 4096 characters: cut, with the note
C5_AtLimit ==
    /\ sample.fn = "preview" /\ sample.applied
    /\ Len(sample.text) = 4096
    /\ sample.shown.kind = "preview"
    /\ Len(sample.shown.body) = 4000
    /\ sample.shown.note

RECURSIVE Utf8Decode(_)
Utf8Decode(bytes) ==
    IF bytes = <<>> THEN <<>>
    ELSE IF bytes[1] < 128 THEN <<bytes[1]>> \o Utf8Decode(Tail(bytes))
    ELSE <<(bytes[1] - 192) * 64 + (bytes[2] - 128)>> \o Utf8Decode(Tail(Tail(bytes)))

CodePoints(s) == [i \in 1..Len(s) |-> CodePoint(s[i])]

\* C7: no step of button_callback changes what a session holds, whatever the
\* button; the file a format_txt press sends is named extracted_text.txt and
\* decodes to the stored plain text, the file a format_md press sends is
\* named extracted_content.md and decodes to the stored markdown, a
\* format_cancel press sends none; and what a session holds changes only in
\* the store of a request's send_ocr_results.
C7_ButtonFrame ==
    [][/\ press' # press => user_data' = user_data
       /\ user_data' # user_data =>
             \E r \in Requests :
                 /\ req[r].pc = "edit_preview" /\ req'[r].pc = "reply_selection"
                 /\ \A s \in Sessions : s # req[r].sess => user_data'[s] = user_data[s]
       /\ \A p \in Presses :
             (press[p].pc = "answer" /\ press'[p].pc # "answer") =>
                 LET stored == user_data'[press[p].user]
                     sent == press'[p].file
                 IN  IF press'[p].pc = "reply_document"
                     THEN \/ /\ press[p].data = FormatTxt
                             /\ sent.filename = "extracted_text.txt"
                             /\ Utf8Decode(sent.content) = CodePoints(stored.ocr_text)
                          \/ /\ press[p].data = FormatMd
                             /\ sent.filename = "extracted_content.md"
                             /\ Utf8Decode(sent.content) = CodePoints(stored.ocr_markdown)
                     ELSE sent = NoFile
       /\ \A p \in Presses :
             press'[p].pc = "delivered" => press[p].pc \in {"reply_document", "delivered"}
      ]_vars

\* A markdown file about to be sent that differs from the stored plain text
C7_MarkdownSent ==
    \E p \in Presses :
        /\ press[p].pc = "reply_document"
        /\ press[p].file.filename = "extracted_content.md"
        /\ press[p].file.content # <<>>
        /\ Utf8Decode(press[p].file.content)
             # CodePoints(user_data[press[p].user].ocr_text)

\* C8 as stated: once a Cancel press has replaced a selection message by the
\* cancellation notice, no file is delivered from that message.
C8_NoFileAfterCancel ==
    [][\A p \in Presses :
         (press[p].pc = "reply_document" /\ press'[p].pc = "delivered") =>
             req[press[p].msg].sel # "cancelled"
      ]_vars

\* C8, amended: the handling of a format_cancel press sends no file; when its
\* edit returns, the selection message shows the cancellation notice and no
\* button, for good; no press is made on a message that shows the notice, so
\* the only files delivered from it afterwards are those of Text or Markdown
\* presses made before the notice replaced the message.
C8_CancelClosesMessage ==
    [][/\ \A p \in Presses :
            /\ (press[p].pc = "idle" /\ press'[p].pc # "idle") =>
                   /\ req[press'[p].msg].sel = "choose"
                   /\ press'[p].pc = "answer"
            /\ press'[p].data = FormatCancel =>
                   /\ press'[p].pc \in {"answer", "edit_cancel"}
                   /\ press'[p].file = NoFile
            /\ press'[p].pc = "edit_cancel" => press'[p].data = FormatCancel
            /\ press'[p].pc = "cancelled" =>
                   /\ press[p].pc \in {"edit_cancel", "cancelled"}
                   /\ req'[press'[p].msg].sel = "cancelled"
            /\ (press[p].pc = "reply_document" /\ press'[p].pc = "delivered"
                /\ req[press[p].msg].sel = "cancelled") =>
                   \E q \in Presses : /\ press[q].pc = "cancelled"
                                      /\ press[q].msg = press[p].msg
       /\ \A r \in Requests :
            /\ req'[r].sel = "cancelled" => req'[r].buttons = {}
            /\ req[r].sel = "cancelled" => req'[r].sel = "cancelled"
      ]_vars

\* A Cancel press has completed on a selection message while a press made
\* before it is still about to send its file
C8_Cancelled ==
    \E p, q \in Presses :
        /\ press[p].pc = "cancelled"
        /\ req[press[p].msg].sel = "cancelled"
        /\ press[q].msg = press[p].msg
        /\ press[q].pc = "reply_document"


\* The calls of the steps of link_command that answer a wrong command
ErrorReplies == {"reply_usage", "reply_invalid", "reply_malformed"}

\* C9: a /link command without argument, or whose argument lacks a scheme or
\* a host, only ever replies with an error message: each of its steps makes
\* exactly one call, a reply; the handler returns as soon as a reply has
\* returned, so one error message is sent (a second reply is attempted only
\* after the invalid-URL reply raised); it makes no HTTP GET and no provider
\* call, creates no status message and no temp file, and leaves what the
\* session holds unchanged.  Conversely the status message of a /link command
\* is only created for an argument that has both a scheme and a host.
C9_InvalidLink ==
    [][\A r \in Requests :
         LET a == req[r]
             b == req'[r]
         IN  /\ b.pc \in ErrorReplies =>
                  /\ b.calls = <<b.pc>>
                  /\ b.status = NoMessage /\ b.tmp = "none" /\ b.sel = "none"
                  /\ b.resp = 0
                  /\ b.pc = "reply_usage" => b.url = NoUrl
                  /\ b.pc = "reply_invalid" => (b.url.scheme = "" \/ b.url.netloc = "")
             /\ (a.pc = "idle" /\ b.kind = "link") =>
                  IF b.url = NoUrl \/ b.url.scheme = "" \/ b.url.netloc = ""
                  THEN b.pc \in ErrorReplies
                  ELSE b.pc = "reply_status" /\ b.calls = <<"reply_status">>
             /\ (a.pc \in ErrorReplies /\ b # a) =>
                  /\ user_data' = user_data
                  /\ \/ b.pc = "rejected" /\ b.calls = <<>>
                     \/ b.pc = "escaped" /\ b.calls = <<>>
                     \/ a.pc = "reply_invalid" /\ b.pc = "reply_malformed"
             /\ b.pc = "rejected" =>
                  /\ a.pc \in ErrorReplies \cup {"rejected"}
                  /\ b.status = NoMessage /\ b.tmp = "none" /\ b.sel = "none"
      ]_vars

\* A /link command was answered with an error message while its session
\* holds the result of an earlier request
C9_Rejected ==
    \E r \in Requests :
        /\ req[r].pc = "rejected"
        /\ req[r].status = NoMessage
        /\ user_data[req[r].sess] # <<>>

\* The extensions claim C10 names, as suffixes
AcceptedExtensions ==
    { <<".", "p", "d", "f">>, <<".", "j", "p", "g">>,
      <<".", "j", "p", "e", "g">>, <<".", "p", "n", "g">> }

ProviderCalls == {"upload", "sign", "ocr"}

\* C10: the document handler and the /link handler go on to fetch the content
\* (download, response.read) exactly when the resolved extension, lowercased,
\* is .pdf, .jpg, .jpeg or .png; otherwise the step that resolved the
\* extension makes one call, the edit to the unsupported-file-type message,
\* with no temp file created, and the request ends there with that message or,
\* when that edit raises, in the except clause; it never gets a temp file and
\* never calls the provider, which these two handlers call only after the
\* content of an accepted extension was fetched.
C10_Extensions ==
    [][\A r \in Requests :
         LET a == req[r]
             b == req'[r]
         IN  /\ b.pc = "edit_unsupported" =>
                  /\ Lower(b.ext) \notin AcceptedExtensions
                  /\ b.calls = <<"edit_unsupported">>
                  /\ b.tmp = "none"
             /\ (b.kind \in {"document", "link"} /\ b.pc \in {"download", "read"}) =>
                  Lower(b.ext) \in AcceptedExtensions
             /\ (a.pc = "edit_unsupported" /\ b # a) =>
                  /\ b.tmp = "none"
                  /\ \/ b.pc = "failed" /\ b.status.kind = "unsupported"
                     \/ b.pc = "edit_error" /\ b.calls = <<"edit_error">>
             /\ b.status.kind = "unsupported" =>
                  b.pc = "failed" /\ b.tmp = "none" /\ b.sel = "none"
             /\ (a.kind \in {"document", "link"}
                 /\ \E i \in DOMAIN b.calls : b.calls[i] \in ProviderCalls) =>
                  /\ a.pc \in {"download", "read"}
                  /\ Lower(a.ext) \in AcceptedExtensions
                  /\ b.tmp # "none"
             /\ (b.tmp = "none" /\ a.tmp = "none" /\ a.kind \in {"document", "link"}) =>
                  \A i \in DOMAIN b.calls : b.calls[i] \notin ProviderCalls
      ]_vars

\* One request ended with the unsupported-file-type message while a /link
\* request goes on to read a file whose extension is written in capitals
C10_Both ==
    \E r1, r2 \in Requests :
        /\ req[r1].pc = "failed" /\ req[r1].status.kind = "unsupported"
        /\ req[r2].kind = "link" /\ req[r2].pc = "read"
        /\ req[r2].ext # Lower(req[r2].ext)

\* A document was normalized
Normalized == sample.fn = "normalize" /\ sample.applied

\* A page that has markdown and neither paragraphs nor images
MarkdownOnly(page) == DOMAIN page = {"markdown"}

\* A heading line of level 1, 2 or 3 without its marker, any other line as it is
StripHeading(line) ==
    IF StartsWith(line, <<"#", "#", "#", " ">>) THEN Drop(line, 4)
    ELSE IF StartsWith(line, <<"#", "#", " ">>) THEN Drop(line, 3)
    ELSE IF StartsWith(line, <<"#", " ">>) THEN Drop(line, 2)
    ELSE line

\* The lines C11 expects of a markdown: no image line, headings without marker
RECURSIVE ExpectedLines(_)
ExpectedLines(lines) ==
    IF lines = <<>> THEN <<>>
    ELSE (IF IsImageLine(Head(lines)) THEN <<>> ELSE <<StripHeading(Head(lines))>>)
         \o ExpectedLines(Tail(lines))

\* C11 as stated: the transcript of a markdown-only page consists of the
\* page's lines, in order, without the lines that start with '![' or '<img',
\* each heading line of level 1, 2 or 3 without its marker and every other
\* line unchanged.
C11_HeadingsStripped ==
    (Normalized /\ Len(sample.pages) = 1 /\ MarkdownOnly(sample.pages[1])) =>
        sample.text =
            Lines(ExpectedLines(Split(sample.pages[1].markdown, NL))) \o <<NL, NL>>


\* The text a page contributes: its paragraphs, each with its line break, or
\* else its markdown made plain, or nothing
Contribution(page) ==
    IF HasAttr(page, "paragraphs") THEN ParagraphsText(page.paragraphs)
    ELSE IF HasAttr(page, "markdown") THEN MarkdownToText(page.markdown)
    ELSE <<>>

\* text is the contributions of pages in order, each followed by one line
\* break or more
RECURSIVE IsConcatenation(_, _)
IsConcatenation(text, pages) ==
    IF pages = <<>> THEN text = <<>>
    ELSE LET t == Contribution(Head(pages))
         IN  /\ StartsWith(text, t)
             /\ \E k \in 1..(Len(text) - Len(t)) :
                  /\ \A j \in 1..k : text[Len(t) + j] = NL
                  /\ IsConcatenation(Drop(text, Len(t) + k), Tail(pages))

\* C12: the transcript of a document of N pages is the text contributions of
\* its pages, in page order, each followed by at least one line break; for a
\* document of no page nothing raises and the transcript and the combined
\* markdown are both empty.
C12_Concatenation ==
    Normalized =>
        /\ IsConcatenation(sample.text, sample.pages)
        /\ sample.pages = <<>> =>
              /\ ~sample.raised
              /\ sample.text = <<>>
              /\ sample.markdown = <<>>

\* The transcript of two pages of different shape, each contributing text
C12_TwoPages ==
    /\ Normalized
    /\ Len(sample.pages) = 2
    /\ HasAttr(sample.pages[1], "paragraphs") /\ Contribution(sample.pages[1]) # <<>>
    /\ MarkdownOnly(sample.pages[2]) /\ Contribution(sample.pages[2]) # <<>>
    /\ sample.text # <<>>


\* The places of s where sub begins
Occurrences(s, sub) == {i \in 1..Len(s) : StartsWith(Drop(s, i - 1), sub)}

\* ![id](target) written out
Reference(id, target) == <<"!", "[">> \o id \o <<"]", "(">> \o target \o <<")">>

\* A one-page document whose page has markdown and images was normalized
NormalizedImagePage ==
    /\ Normalized /\ ~sample.raised
    /\ Len(sample.pages) = 1
    /\ {"markdown", "images"} \subseteq DOMAIN sample.pages[1]

\* C13 as stated: for every image of the page whose reference ![id](id)
\* occurs in the page's markdown, the normalized markdown holds ![id](B) as
\* often at least, and the substring (id) nowhere.
C13_NoIdLeft ==
    NormalizedImagePage =>
        LET page == sample.pages[1]
        IN  \A k \in 1..Len(page.images) :
              LET id == page.images[k].id
                  B == page.images[k].image_base64
              IN  Occurrences(page.markdown, Reference(id, id)) # {} =>
                    /\ Cardinality(Occurrences(sample.markdown, Reference(id, B)))
                         >= Cardinality(Occurrences(page.markdown, Reference(id, id)))
                    /\ Occurrences(sample.markdown, <<"(">> \o id \o <<")">>) = {}

\* C13, amended: for every image of the page (ids distinct, payloads of
\* base64 characters), the normalized markdown holds ![id](B) wherever the
\* page's markdown held ![id](id) and holds ![id](id) nowhere; nothing else
\* changes, so a substring (id) outside an image reference is still there.
C13_ReferencesRewritten ==
    NormalizedImagePage =>
        LET page == sample.pages[1]
        IN  \A k \in 1..Len(page.images) :
              LET id == page.images[k].id
                  B == page.images[k].image_base64
                  before == Occurrences(page.markdown, Reference(id, id))
              IN  /\ Cardinality(Occurrences(sample.markdown, Reference(id, B)))
                       = Cardinality(before)
                  /\ Occurrences(sample.markdown, Reference(id, id)) = {}
                  /\ Cardinality(Occurrences(sample.markdown, <<"(">> \o id \o <<")">>))
                       = Cardinality(Occurrences(page.markdown, <<"(">> \o id \o <<")">>))
                         - Cardinality(before)

\* A page with two references to its image and the id in parentheses besides
C13_TwoReferences ==
    /\ NormalizedImagePage
    /\ \E k \in 1..Len(sample.pages[1].images) :
         LET id == sample.pages[1].images[k].id
             B == sample.pages[1].images[k].image_base64
         IN  /\ Cardinality(Occurrences(sample.markdown, Reference(id, B))) = 2
             /\ Occurrences(sample.markdown, <<"(">> \o id \o <<")">>) # {}


\* A page whose image list is missing or empty
ZeroImages(page) == ~HasAttr(page, "images") \/ page.images = <<>>

\* The normalized markdown of each page that has markdown, in page order
RECURSIVE PageMarkdowns(_)
PageMarkdowns(pages) ==
    IF pages = <<>> THEN <<>>
    ELSE LET page == Head(pages)
         IN  (IF ~HasAttr(page, "markdown") THEN <<>>
              ELSE IF ZeroImages(page) THEN <<page.markdown>>
              ELSE <<replace_images_in_markdown(page.markdown,
                                                DictItems(page.images, <<>>))>>)
             \o PageMarkdowns(Tail(pages))

\* text is parts with a blank line (two line breaks) between neighbours
RECURSIVE IsJoinedByBlankLine(_, _)
IsJoinedByBlankLine(text, parts) ==
    IF parts = <<>> THEN text = <<>>
    ELSE IF Len(parts) = 1 THEN text = parts[1]
    ELSE /\ StartsWith(text, parts[1] \o <<NL, NL>>)
         /\ IsJoinedByBlankLine(Drop(text, Len(parts[1]) + 2), Tail(parts))

\* C14: the combined markdown of a document is its pages' normalized
\* markdowns, in page order, with a blank line between them, where the
\* normalized markdown of a page with zero images is the page's markdown
\* unchanged; normalizing such a page's result again, as a page with zero
\* images, gives the same string.
C14_JoinedUnchanged ==
    (Normalized /\ ~sample.raised) =>
        /\ IsJoinedByBlankLine(sample.markdown, PageMarkdowns(sample.pages))
        /\ (Len(sample.pages) = 1 /\ HasAttr(sample.pages[1], "markdown")
            /\ ZeroImages(sample.pages[1])) =>
              /\ sample.markdown = sample.pages[1].markdown
              /\ get_combined_markdown(<<[markdown |-> sample.markdown,
                                          images |-> <<>>]>>) = sample.markdown
              /\ get_combined_markdown(<<[markdown |-> sample.markdown]>>)
                   = sample.markdown

\* Two pages with markdown, the first with an empty image list and an image
\* reference, combined
C14_TwoPages ==
    /\ Normalized /\ ~sample.raised
    /\ Len(sample.pages) = 2
    /\ HasAttr(sample.pages[1], "images") /\ ZeroImages(sample.pages[1])
    /\ HasAttr(sample.pages[2], "markdown")
    /\ sample.markdown = sample.pages[1].markdown \o <<NL, NL>>
                         \o PageMarkdowns(<<sample.pages[2]>>)[1]


\* The network operations of a request's pipeline
NetworkOps == {"get_file", "download", "http_get", "read", "upload", "sign", "ocr"}

\* How far a handler has come: no step leads to a lower or equal stage
Stage(pc) ==
    CASE pc = "idle" -> 0
      [] pc \in {"reply_status", "reply_usage", "reply_invalid"} -> 1
      [] pc \in {"get_file", "http_get", "reply_malformed"} -> 2
      [] pc \in {"download", "read", "edit_unsupported", "edit_bad_status"} -> 3
      [] pc = "edit_preview" -> 4
      [] pc = "reply_selection" -> 5
      [] pc = "edit_results_error" -> 6
      [] pc = "edit_error" -> 7
      [] OTHER -> 8

\* The one stage a network operation is issued from
IssuedFrom(op) ==
    CASE op \in {"get_file", "http_get"} -> {"reply_status"}
      [] op = "download" -> {"get_file"}
      [] op = "read" -> {"http_get"}
      [] op \in {"upload", "sign"} -> {"download", "read"}
      [] OTHER -> {"download", "read", "get_file"}

\* C15: a request never returns to a stage it has left and issues each
\* network operation from one stage only, once in that step, so each is
\* attempted at most once; the step in which one of them fails issues nothing
\* after it but the edit that shows the error in the status message; and a
\* request with an error issues no network operation, stores no result and
\* gets no selection message.
C15_NoRetry ==
    [][\A r \in Requests :
         LET a == req[r]
             b == req'[r]
         IN  IF a.pc \in Ended THEN b.pc = a.pc /\ b.calls = a.calls /\ b.err = a.err
             ELSE b # a =>
               /\ Stage(b.pc) > Stage(a.pc)
               /\ \A i \in DOMAIN b.calls :
                    b.calls[i] \in NetworkOps =>
                      /\ a.pc \in IssuedFrom(b.calls[i])
                      /\ \A j \in DOMAIN b.calls : b.calls[j] = b.calls[i] => j = i
               /\ (~a.err /\ b.err) =>
                    /\ b.calls[Len(b.calls)] \in {"edit_error", "edit_results_error"}
                    /\ b.pc = b.calls[Len(b.calls)]
                    /\ \A i \in DOMAIN b.calls :
                         b.calls[i] \notin {"store", "reply_selection", "edit_preview"}
               /\ b.pc = "edit_bad_status" => b.calls = <<"edit_bad_status">>
               /\ a.pc = "edit_bad_status" => b.pc \in {"failed", "edit_error"}
               /\ a.err =>
                    /\ b.err
                    /\ \A i \in DOMAIN b.calls : b.calls[i] = "edit_error"
                    /\ b.sel = "none"
                    /\ user_data'[a.sess] = user_data[a.sess]
      ]_vars

\* A document request whose signed-URL request failed after the upload
C15_SignFailed ==
    \E r \in Requests :
        /\ req[r].pc = "edit_error"
        /\ req[r].calls = <<"upload", "sign", "edit_error">>


\* The calls of a step, as a set
Issued(rec) == {rec.calls[i] : i \in DOMAIN rec.calls}

\* Where the step issues the call op
Position(rec, op) == CHOOSE i \in DOMAIN rec.calls : rec.calls[i] = op

\* The calls of send_ocr_results
DeliveryCalls == {"normalize", "edit_preview", "edit_results_error"}

\* Result delivery has started and has not failed
Delivering == {"edit_preview", "reply_selection", "done"}

\* C16 as stated: a step that issues the signed-URL request has deleted the
\* temp file right after the upload, before that request, and no temp file of
\* the request exists while its result is delivered.
C16_DeletedAfterUpload ==
    [][\A r \in Requests :
         LET a == req[r]
             b == req'[r]
         IN  /\ (b # a /\ "sign" \in Issued(b)) =>
                  /\ "unlink" \in Issued(b)
                  /\ Position(b, "unlink") = Position(b, "upload") + 1
                  /\ Position(b, "unlink") < Position(b, "sign")
             /\ b.pc \in Delivering => b.tmp # "exists"
      ]_vars

\* C16, corrected: the step that uploads the temp file deletes it only after
\* the upload, the signed-URL request and the OCR request have all returned,
\* right after the OCR request and before any call of the result delivery; if
\* one of the three fails the file stays on disk for good. A temp file
\* disappears by that deletion only, and none exists while the result of its
\* request is delivered.
C16_DeletedAfterOcr ==
    [][\A r \in Requests :
         LET a == req[r]
             b == req'[r]
         IN  /\ (b # a /\ "upload" \in Issued(b)) =>
                  /\ a.tmp = "exists" \/ "tmp_create" \in Issued(b)
                  /\ IF "unlink" \in Issued(b)
                     THEN /\ {"sign", "ocr"} \subseteq Issued(b)
                          /\ Position(b, "upload") < Position(b, "sign")
                          /\ Position(b, "sign") < Position(b, "ocr")
                          /\ Position(b, "unlink") = Position(b, "ocr") + 1
                          /\ \A i \in DOMAIN b.calls :
                               b.calls[i] \in DeliveryCalls => i > Position(b, "unlink")
                          /\ b.tmp = "deleted"
                     ELSE /\ b.err /\ b.pc = "edit_error"
                          /\ Issued(b) \cap DeliveryCalls = {}
                          /\ b.tmp = "exists"
             /\ b.tmp # a.tmp =>
                  \/ a.tmp = "none" /\ b.tmp = "exists" /\ "tmp_create" \in Issued(b)
                  \/ a.tmp = "exists" /\ b.tmp = "deleted" /\ "unlink" \in Issued(b)
                  \/ a.tmp = "none" /\ b.tmp = "deleted"
                       /\ {"tmp_create", "unlink"} \subseteq Issued(b)
                       /\ Position(b, "tmp_create") < Position(b, "upload")
             /\ (a.err /\ a.tmp = "exists") => b.tmp = "exists"
             /\ b.pc \in Delivering => b.tmp # "exists"
      ]_vars

\* One request delivers its result with its temp file deleted, another has
\* failed in the provider and its temp file is still there
C16_DeletedAndLeft ==
    \E r, q \in Requests :
        /\ req[r].pc = "edit_preview" /\ req[r].tmp = "deleted"
        /\ "unlink" \in Issued(req[r])
        /\ req[q].pc = "failed" /\ req[q].tmp = "exists"


\* The pairs of text and markdown of the responses that have both
Pairs ==
    {[ocr_text |-> TextContent(Responses[i]),
      ocr_markdown |-> get_combined_markdown(Responses[i])] :
        i \in {j \in ShortResponses : ~MarkdownRaises(Responses[j])}}

\* The pair is the text and the markdown of one and the same response
OfOneResponse(data) == data \in Pairs

\* C17: whatever the interleaving, a session holds nothing or the text and
\* the markdown of one and the same OCR response; the pair changes only in
\* the one step of one request of that session that writes both strings; and
\* the pair a button press reads its file from is such a pair.
C17_SameResponse ==
    [][/\ \A s \in Sessions :
            /\ user_data'[s] = <<>> \/ OfOneResponse(user_data'[s])
            /\ user_data'[s] # user_data[s] =>
                 \E r \in Requests :
                     /\ req[r].sess = s
                     /\ req[r].pc = "edit_preview" /\ req'[r].pc = "reply_selection"
                     /\ user_data'[s].ocr_text = TextContent(Responses[req[r].resp])
                     /\ user_data'[s].ocr_markdown
                          = get_combined_markdown(Responses[req[r].resp])
       /\ \A p \in Presses :
            (press[p].pc = "answer" /\ press'[p].pc = "reply_document") =>
                /\ OfOneResponse(user_data[press[p].user])
                /\ press'[p].file.content
                     \in {Utf8Encode(user_data[press[p].user].ocr_text),
                          Utf8Encode(user_data[press[p].user].ocr_markdown)}
      ]_vars

\* Two requests of one session with different responses have both stored
\* their result and neither has sent its selection message yet
C17_Interleaved ==
    \E r, q \in Requests :
        /\ r # q /\ req[r].sess = req[q].sess
        /\ req[r].pc = "reply_selection" /\ req[q].pc = "reply_selection"
        /\ req[r].resp # req[q].resp
        /\ TextContent(Responses[req[r].resp]) # TextContent(Responses[req[q].resp])
        /\ get_combined_markdown(Responses[req[r].resp])
             # get_combined_markdown(Responses[req[q].resp])


\* C18: the session of every selection message that shows its buttons holds
\* a text and a markdown, and whenever the handling of a Text or Markdown
\* press on such a message comes to read the stored result, the user whose
\* press it is holds both.
C18_PressFindsResult ==
    /\ \A r \in Requests :
         (req[r].sel = "choose" /\ req[r].buttons # {}) =>
             DOMAIN user_data[req[r].sess] = {"ocr_text", "ocr_markdown"}
    /\ \A p \in Presses :
         (/\ press[p].pc = "answer" /\ press[p].data \in {FormatTxt, FormatMd}
          /\ req[press[p].msg].sel = "choose" /\ req[press[p].msg].buttons # {}) =>
             {"ocr_text", "ocr_markdown"} \subseteq DOMAIN user_data[press[p].user]

\* A Text or Markdown press on a selection message by a user of the chat who
\* holds no result, while the user whose request produced the message does
C18_PressedByAnother ==
    \E p \in Presses :
        /\ press[p].pc = "answer" /\ press[p].data \in {FormatTxt, FormatMd}
        /\ req[press[p].msg].sel = "choose"
        /\ press[p].user # req[press[p].msg].sess
        /\ user_data[press[p].user] = <<>>
        /\ user_data[req[press[p].msg].sess] # <<>>


\* C19: a step changes the stored result of a user only when it is the store
\* of a request of that very user, which leaves every other user's result
\* alone; and the file a Text or Markdown press is about to deliver is made
\* from the response of the latest storing request of the user who pressed,
\* whoever's request produced the message pressed and whatever the others hold.
C19_Isolation ==
    [][/\ \A s \in Sessions :
            (user_data'[s] # user_data[s] \/ lastStore'[s] # lastStore[s]) =>
                \E r \in Requests :
                    /\ req[r].sess = s /\ req'[r] # req[r]
                    /\ lastStore'[s] = req[r].resp
                    /\ \A q \in Requests \ {r} : req'[q] = req[q]
                    /\ press' = press
                    /\ \A t \in Sessions \ {s} :
                         user_data'[t] = user_data[t] /\ lastStore'[t] = lastStore[t]
       /\ \A p \in Presses :
            (press[p].pc = "answer" /\ press'[p].pc = "reply_document") =>
                LET own == lastStore[press[p].user]
                IN  /\ own # 0
                    /\ press'[p].file.content =
                         IF press[p].data = FormatTxt
                         THEN Utf8Encode(TextContent(Responses[own]))
                         ELSE Utf8Encode(get_combined_markdown(Responses[own]))
       /\ \A p \in Presses :
            press'[p] # press[p] => user_data' = user_data /\ lastStore' = lastStore
      ]_vars

\* A user who holds a result presses Text or Markdown on the selection message
\* of another user who holds a different one, and the file is about to be sent
C19_OthersMessage ==
    \E p \in Presses :
        LET owner == req[press[p].msg].sess
        IN  /\ press[p].pc = "reply_document"
            /\ press[p].user # owner
            /\ lastStore[press[p].user] # 0 /\ lastStore[owner] # 0
            /\ user_data[press[p].user].ocr_text # user_data[owner].ocr_text
            /\ user_data[press[p].user].ocr_markdown # user_data[owner].ocr_markdown


=============================================================================
